---- MODULE Spec2Model ----
(***************************************************************************)
(* The CassandraCluster controller of pkg/apis/cassandra/v1alpha1/types.go *)
(* (package controller): the informer event handlers, the rate limited     *)
(* work queue, the worker loops and syncHandler, together with the API     *)
(* server objects they read and write and the informer caches (listers).   *)
(***************************************************************************)
EXTENDS Integers, Sequences, FiniteSets, TLC

\* The CassandraCluster keys (namespace/name) of the model.
Keys == {"default/a"}

\* The worker goroutines Run launches: threadiness = 2.
Workers == {1, 2}

\* What the work queue can hold besides those keys (its items are
\* interface{} values): a string that SplitMetaNamespaceKey cannot split, and
\* an item that is not a string.
BadKey == "default/a/b"
NotAString == "int(42)"
Items == Keys \cup {BadKey, NotAString}

\* The values spec.replicas takes when it is set; 0 stands for a nil *int32.
ReplicaValues == {1, 3}

\* How many changes the outside world (users, other controllers) makes once
\* the controller has been constructed.
MaxExternal == 1

\* The resourceVersions a StatefulSet goes through are capped here.
MaxVersion == 3

\* How many API calls fail for a transient reason.
MaxApiFailures == 1

\* The failure counter of the rate limiter saturates here (the delay it
\* stands for saturates at maxDelay in the library).
MaxRequeues == 2

----------------------------------------------------------------------------
\* Objects.  An absent object is the record with exists = FALSE.

\* CassandraCluster: spec.statefulsetName non-empty (name), spec.replicas
\* (0 = nil), status.currentReplicas (cur).
NoCC == [exists |-> FALSE, name |-> FALSE, replicas |-> 0, cur |-> 0]

\* StatefulSet: the controller owner reference (a key, or "foreign" when no
\* controller reference of kind CassandraCluster is set), spec.replicas,
\* status.currentReplicas, and the rest of the object (labels, selector,
\* service name, pod template): "made" when it is as newStatefulSet makes it,
\* "other" when something in it differs.
NoSS == [exists |-> FALSE, owner |-> "foreign", replicas |-> 0, cur |-> 0,
         rest |-> "made"]

\* The two headless services of a CassandraCluster: <name>-unready and <name>.
NoSvcs == [unready |-> FALSE, headless |-> FALSE]

\* newStatefulSet: owned by the CassandraCluster, Replicas copied from its spec.
newStatefulSet(k, c) ==
    [exists |-> TRUE, owner |-> k, replicas |-> c.replicas, cur |-> 0,
     rest |-> "made"]

\* An ownership check that accepts any StatefulSet of the expected name.
IsControlledBy_Any(s, k) == TRUE

\* metav1.IsControlledBy(statefulset, cassandracluster)
IsControlledBy(s, k) == s.owner = k

\* The API server stores a created StatefulSet with spec.replicas defaulted to 1.
Defaulted(s) == IF s.replicas = 0 THEN [s EXCEPT !.replicas = 1] ELSE s

\* The API server keeps the stored status on an update of the main resource.
Replaced(stored, s) == [Defaulted(s) EXCEPT !.cur = stored.cur]

----------------------------------------------------------------------------
\* The work queue: workqueue.NewNamedRateLimitingQueue.  q is the record
\* [queue, dirty, processing, waiting, failures, shuttingDown].

Min(a, b) == IF a < b THEN a ELSE b

EmptyQueue ==
    [queue |-> <<>>, dirty |-> {}, processing |-> {}, waiting |-> {},
     failures |-> [k \in Items |-> 0], shuttingDown |-> FALSE]

\* Add: dropped when shutting down or already dirty; a key being processed is
\* only marked dirty.
QAdd(q, k) ==
    IF q.shuttingDown \/ k \in q.dirty THEN q
    ELSE IF k \in q.processing THEN [q EXCEPT !.dirty = @ \cup {k}]
    ELSE [q EXCEPT !.dirty = @ \cup {k}, !.queue = Append(@, k)]

\* Get, when the queue is not empty: the head moves from dirty to processing.
QGet(q) ==
    [q EXCEPT !.queue = Tail(@),
              !.processing = @ \cup {Head(q.queue)},
              !.dirty = @ \ {Head(q.queue)}]

\* Done: the key leaves processing, and goes back on the queue if it was
\* added again meanwhile.
QDone(q, k) ==
    IF k \in q.dirty
    THEN [q EXCEPT !.processing = @ \ {k}, !.queue = Append(@, k)]
    ELSE [q EXCEPT !.processing = @ \ {k}]

\* Forget: the rate limiter drops the failure count of the key.
QForget(q, k) == [q EXCEPT !.failures[k] = 0]

\* AddRateLimited: the rate limiter counts the request (When) and the key is
\* handed to the delaying queue (AddAfter with a positive delay), which keeps
\* one waiting entry per key; nothing is handed over when shutting down.
QAddRateLimited(q, k) ==
    LET counted == [q EXCEPT !.failures[k] = Min(@ + 1, MaxRequeues)]
    IN  IF q.shuttingDown THEN counted
        ELSE [counted EXCEPT !.waiting = @ \cup {k}]

\* The delaying queue's waiting loop: the delay of k is over.
QReady(q, k) == QAdd([q EXCEPT !.waiting = @ \ {k}], k)

\* A ShutDown that leaves the queue as it is.
QShutDown_None(q) == q

\* ShutDown
QShutDown(q) == [q EXCEPT !.shuttingDown = TRUE]

----------------------------------------------------------------------------
VARIABLES
    cc,          \* API server: the CassandraCluster of each key
    svcs,        \* API server: the two Services of each key
    ss,          \* API server: the StatefulSet named by each key's spec
    ccCache,     \* cassandraclustersLister: the informer's copy of cc
    ccSeen,      \* the informer has delivered the stored version of cc[k]
    ssCache,     \* statefulsetsLister: the informer's copy of ss
    ssSeen,      \* the informer has delivered the stored version of ss[k]
    ccSynced,    \* cassandraclustersSynced: the initial list is in the cache
    ssSynced,    \* statefulsetsSynced
    workqueue,   \* the rate limited work queue
    runState,    \* Run: "syncing", "running", "stopped" (nil), "failed" (error)
    pc,          \* each worker's position
    item,        \* the key a worker got from the queue
    wcc,         \* the CassandraCluster a pass holds, and whether its
                 \* resourceVersion is still the stored one
    wss,         \* the StatefulSet a pass holds
    err,         \* syncHandler returned an error
    wlog,        \* history: the calls and events of a pass
    extLeft,     \* changes the outside world may still make
    apiFailLeft, \* transient API failures still to come
    anyGet,      \* history: some Get has returned a key
    dedup,       \* history: per key, enqueues and dequeues since the start
    lateNotify,  \* history: k was enqueued while being processed, no Get since
    lastHeld     \* history: the last pass of k went through every step and
                 \* nothing changed since; the StatefulSet it ended with

api     == <<cc, svcs, ss>>
caches  == <<ccCache, ccSeen, ssCache, ssSeen, ccSynced, ssSynced>>
worker  == <<pc, item, wcc, wss, err, wlog>>
budgets == <<extLeft, apiFailLeft>>
history == <<anyGet, dedup, lateNotify, lastHeld>>
vars    == <<api, caches, workqueue, runState, worker, budgets, history>>

NoItem == "-"
NoHeld == [obj |-> NoCC, fresh |-> FALSE]
NoLast == [ok |-> FALSE, ss |-> NoSS]

EmptyLog ==
    [lookup |-> "none", gets |-> 0,
     svcCreates |-> 0, ssCreates |-> 0, ssUpdates |-> 0, updReplicas |-> 0,
     seenReplicas |-> 0, statusWrites |-> 0, statusSent |-> 0,
     statusFailed |-> FALSE, warnings |-> 0, synced |-> 0,
     afterOk |-> FALSE, sameView |-> TRUE,
     sentVersion |-> 0, writeFailed |-> FALSE]

\* The positions at which a syncHandler execution is between two API calls.
InSync == {"svcU", "svc", "ss", "upd", "status"}

\* The objects the controller may find in the cluster when it starts: any
\* CassandraCluster, and possibly a StatefulSet somebody else made.
SomeCC == {[exists |-> TRUE, name |-> nm, replicas |-> r, cur |-> 0] :
              nm \in BOOLEAN, r \in ReplicaValues \cup {0}}
ForeignSS(r) ==
    [exists |-> TRUE, owner |-> "foreign", replicas |-> r, cur |-> 0,
     rest |-> "other"]

\* A StatefulSet of the CassandraCluster in which somebody has changed
\* something else than the replicas.
Edited(s) == [s EXCEPT !.rest = "other"]

Init ==
    /\ cc \in [Keys -> SomeCC \cup {NoCC}]
    /\ svcs = [k \in Keys |-> NoSvcs]
    /\ ss \in [Keys -> {NoSS, ForeignSS(1)}]
    /\ ccCache = [k \in Keys |-> NoCC]
    /\ ccSeen = [k \in Keys |-> TRUE]
    /\ ssCache = [k \in Keys |-> NoSS]
    /\ ssSeen = [k \in Keys |-> TRUE]
    /\ ccSynced = FALSE
    /\ ssSynced = FALSE
    /\ workqueue = EmptyQueue
    /\ runState = "syncing"
    /\ pc = [w \in Workers |-> "off"]
    /\ item = [w \in Workers |-> NoItem]
    /\ wcc = [w \in Workers |-> NoHeld]
    /\ wss = [w \in Workers |-> NoSS]
    /\ err = [w \in Workers |-> FALSE]
    /\ wlog = [w \in Workers |-> EmptyLog]
    /\ extLeft = MaxExternal
    /\ apiFailLeft = MaxApiFailures
    /\ anyGet = FALSE
    /\ dedup = [k \in Keys |-> "none"]
    /\ lateNotify = [k \in Keys |-> FALSE]
    /\ lastHeld = [k \in Keys |-> NoLast]

----------------------------------------------------------------------------
\* The event handlers.

\* An enqueue that appends the key to the queue itself.
enqueueCassandraCluster_Direct(q, k) == [q EXCEPT !.queue = Append(@, k)]

\* An enqueue that skips a key a worker is processing.
enqueueCassandraCluster_SkipBusy(q, k) ==
    IF k \in q.processing THEN q ELSE QAddRateLimited(q, k)

\* enqueueCassandraCluster: MetaNamespaceKeyFunc, then AddRateLimited(key).
enqueueCassandraCluster(q, k) == QAddRateLimited(q, k)

\* A handleObject that enqueues the owner without looking it up.
handleObject_NoLookup(q, s, lister) ==
    IF s.owner \in Keys THEN QAddRateLimited(q, s.owner) ELSE q

\* handleObject on a StatefulSet s: the owner is enqueued when the controller
\* reference is a CassandraCluster that the lister has.
handleObject(q, s, lister) ==
    IF s.owner \in Keys /\ lister[s.owner].exists
    THEN enqueueCassandraCluster(q, s.owner)
    ELSE q

\* The UpdateFunc of the CassandraCluster informer: enqueueCassandraCluster
\* of the new object, whatever the resourceVersions.
cassandraclusterUpdateFunc(q, sameVersion, k) == enqueueCassandraCluster(q, k)

\* The UpdateFunc of the StatefulSet informer: it returns when the old and
\* the new object carry the same resourceVersion, and calls handleObject
\* otherwise.
statefulsetUpdateFunc(q, sameVersion, new, lister) ==
    IF sameVersion THEN q ELSE handleObject(q, new, lister)

\* The keys for which handleObject on s calls enqueueCassandraCluster.
Routed(s, lister) ==
    {k \in Keys : handleObject(EmptyQueue, s, lister) # EmptyQueue /\ k = s.owner}

RECURSIVE EnqueueAll(_, _)
EnqueueAll(q, S) ==
    IF S = {} THEN q
    ELSE LET k == CHOOSE x \in S : TRUE
         IN  EnqueueAll(enqueueCassandraCluster(q, k), S \ {k})

\* The history of enqueueCassandraCluster being called for the keys of S.
NoteEnqueue(S) ==
    /\ dedup' = [k \in Keys |->
                    IF k \in S /\ dedup[k] # "twice"
                    THEN (IF anyGet THEN "late"
                          ELSE "enqueued")
                    ELSE dedup[k]]
    /\ lateNotify' = [k \in Keys |->
                        lateNotify[k] \/ (k \in S /\ k \in workqueue.processing)]

\* The outside world changed an object of k: the passes in progress for k no
\* longer run on unchanged objects.
Disturbed(log, k) ==
    [w \in Workers |-> IF item[w] = k THEN [log[w] EXCEPT !.afterOk = FALSE]
                       ELSE log[w]]

\* cc[k] was written: the copies held by the passes are out of date.
Outdated(held, k) ==
    [w \in Workers |-> IF item[w] = k THEN [held[w] EXCEPT !.fresh = FALSE]
                       ELSE held[w]]

----------------------------------------------------------------------------
\* The informers: the initial list, the watch events and the resync, each
\* updating the lister's cache and calling the handlers NewController set up.

\* The CassandraCluster informer lists: AddFunc for every object.
InitialListCC ==
    /\ ~ccSynced
    /\ ccSynced' = TRUE
    /\ ccCache' = cc
    /\ ccSeen' = [k \in Keys |-> TRUE]
    /\ LET S == {k \in Keys : cc[k].exists}
       IN  workqueue' = EnqueueAll(workqueue, S) /\ NoteEnqueue(S)
    /\ UNCHANGED <<api, ssCache, ssSeen, ssSynced, runState, worker, budgets,
                   anyGet, lastHeld>>

\* The StatefulSet informer lists: AddFunc = handleObject for every object.
InitialListSS ==
    /\ ~ssSynced
    /\ ssSynced' = TRUE
    /\ ssCache' = ss
    /\ ssSeen' = [k \in Keys |-> TRUE]
    /\ LET S == UNION {Routed(ss[k], ccCache) : k \in {x \in Keys : ss[x].exists}}
       IN  workqueue' = EnqueueAll(workqueue, S) /\ NoteEnqueue(S)
    /\ UNCHANGED <<api, ccCache, ccSeen, ccSynced, runState, worker, budgets,
                   anyGet, lastHeld>>

\* A watch event of CassandraCluster k: AddFunc or UpdateFunc, both
\* enqueueCassandraCluster(new); no handler is registered for a delete.
DeliverCC(k) ==
    /\ ccSynced /\ ~ccSeen[k]
    /\ ccCache' = [ccCache EXCEPT ![k] = cc[k]]
    /\ ccSeen' = [ccSeen EXCEPT ![k] = TRUE]
    /\ LET S == IF cc[k].exists THEN {k} ELSE {}
       IN  workqueue' = EnqueueAll(workqueue, S) /\ NoteEnqueue(S)
    /\ UNCHANGED <<api, ssCache, ssSeen, ccSynced, ssSynced, runState, worker,
                   budgets, anyGet, lastHeld>>

\* The periodic resync of the CassandraCluster informer: UpdateFunc(old, new)
\* with the cached object, enqueued like any update.
ResyncCC(k) ==
    /\ ccSynced /\ ccCache[k].exists
    /\ workqueue' = cassandraclusterUpdateFunc(workqueue, TRUE, k)
    /\ NoteEnqueue({k})
    /\ UNCHANGED <<api, caches, runState, worker, budgets, anyGet, lastHeld>>

\* The periodic resync of the StatefulSet informer: UpdateFunc(old, new) with
\* the cached object on both sides.
ResyncSS(k) ==
    /\ ssSynced /\ ssCache[k].exists
    /\ workqueue' = statefulsetUpdateFunc(workqueue, TRUE, ssCache[k], ccCache)
    /\ UNCHANGED <<api, caches, runState, worker, budgets, history>>

\* The object a StatefulSet notification carries: the stored object, or the
\* last state the cache had of a deleted one.
Notified(k) == IF ss[k].exists THEN ss[k] ELSE ssCache[k]

\* A watch event of the StatefulSet of k: AddFunc, UpdateFunc (the
\* resourceVersions differ) or DeleteFunc, each handleObject.
DeliverSS(k) ==
    /\ ssSynced /\ ~ssSeen[k]
    /\ ssCache' = [ssCache EXCEPT ![k] = ss[k]]
    /\ ssSeen' = [ssSeen EXCEPT ![k] = TRUE]
    /\ LET s == Notified(k)
       IN  /\ workqueue' = handleObject(workqueue, s, ccCache)
           /\ NoteEnqueue(Routed(s, ccCache))
    /\ UNCHANGED <<api, ccCache, ccSeen, ccSynced, ssSynced, runState, worker,
                   budgets, anyGet, lastHeld>>

\* The delaying queue adds a key whose delay is over.
TimerFire(k) ==
    /\ k \in workqueue.waiting
    /\ ~workqueue.shuttingDown
    /\ workqueue' = QReady(workqueue, k)
    /\ UNCHANGED <<api, caches, runState, worker, budgets, history>>

----------------------------------------------------------------------------
\* Run.

\* A wait that is over when one of the caches has synced.
WaitForCacheSync_Either(a, b) == a \/ b

\* cache.WaitForCacheSync(stopCh, statefulsetsSynced, cassandraclustersSynced)
\* returns true once both report synced.
WaitForCacheSync(a, b) == a /\ b

\* WaitForCacheSync returns true: the workers are launched.
CachesSynced ==
    /\ runState = "syncing"
    /\ WaitForCacheSync(ssSynced, ccSynced)
    /\ runState' = "running"
    /\ pc' = [w \in Workers |-> "started"]
    /\ UNCHANGED <<api, caches, workqueue, item, wcc, wss, err, wlog, budgets,
                   history>>

\* stopCh is closed: Run returns (an error when the caches had not synced)
\* and its deferred ShutDown runs.
Stop ==
    /\ runState \in {"syncing", "running"}
    /\ runState' = IF runState = "syncing" THEN "failed" ELSE "stopped"
    /\ workqueue' = QShutDown(workqueue)
    /\ UNCHANGED <<api, caches, worker, budgets, history>>

----------------------------------------------------------------------------
\* The outside world.

Changed(k) ==
    /\ extLeft > 0
    /\ extLeft' = extLeft - 1
    /\ lastHeld' = [lastHeld EXCEPT ![k] = NoLast]
    /\ wlog' = Disturbed(wlog, k)
    /\ UNCHANGED <<svcs, ccCache, ssCache, ccSynced, ssSynced, workqueue,
                   runState, pc, item, wss, err, apiFailLeft, anyGet, dedup,
                   lateNotify>>

\* A user creates CassandraCluster k.
ExtCreateCC(k, nm, r) ==
    /\ ~cc[k].exists
    /\ cc' = [cc EXCEPT ![k] = [exists |-> TRUE, name |-> nm, replicas |-> r,
                                cur |-> 0]]
    /\ ccSeen' = [ccSeen EXCEPT ![k] = FALSE]
    /\ Changed(k)
    /\ UNCHANGED <<ss, ssSeen, wcc>>

\* A user sets spec.replicas of CassandraCluster k.
ExtEditCC(k, r) ==
    /\ cc[k].exists /\ cc[k].replicas # r
    /\ cc' = [cc EXCEPT ![k].replicas = r]
    /\ ccSeen' = [ccSeen EXCEPT ![k] = FALSE]
    /\ wcc' = Outdated(wcc, k)
    /\ Changed(k)
    /\ UNCHANGED <<ss, ssSeen>>

\* A user deletes CassandraCluster k.
ExtDeleteCC(k) ==
    /\ cc[k].exists
    /\ cc' = [cc EXCEPT ![k] = NoCC]
    /\ ccSeen' = [ccSeen EXCEPT ![k] = FALSE]
    /\ wcc' = Outdated(wcc, k)
    /\ Changed(k)
    /\ UNCHANGED <<ss, ssSeen>>

\* Somebody else creates a StatefulSet with the name k's spec gives.
ExtForeignSS(k, r) ==
    /\ ~ss[k].exists
    /\ ss' = [ss EXCEPT ![k] = ForeignSS(r)]
    /\ ssSeen' = [ssSeen EXCEPT ![k] = FALSE]
    /\ Changed(k)
    /\ UNCHANGED <<cc, ccSeen, wcc>>

\* Somebody scales the StatefulSet.
ExtScaleSS(k, r) ==
    /\ ss[k].exists /\ ss[k].replicas # r
    /\ ss' = [ss EXCEPT ![k].replicas = r]
    /\ ssSeen' = [ssSeen EXCEPT ![k] = FALSE]
    /\ Changed(k)
    /\ UNCHANGED <<cc, ccSeen, wcc>>

\* Somebody deletes the StatefulSet.
ExtDeleteSS(k) ==
    /\ ss[k].exists
    /\ ss' = [ss EXCEPT ![k] = NoSS]
    /\ ssSeen' = [ssSeen EXCEPT ![k] = FALSE]
    /\ Changed(k)
    /\ UNCHANGED <<cc, ccSeen, wcc>>

\* The StatefulSet controller reports the replicas it runs.
SSController(k) ==
    /\ ss[k].exists /\ ss[k].cur # ss[k].replicas
    /\ ss' = [ss EXCEPT ![k].cur = ss[k].replicas]
    /\ ssSeen' = [ssSeen EXCEPT ![k] = FALSE]
    /\ lastHeld' = [lastHeld EXCEPT ![k] = NoLast]
    /\ wlog' = Disturbed(wlog, k)
    /\ UNCHANGED <<cc, svcs, ccCache, ccSeen, ssCache, ccSynced, ssSynced,
                   workqueue, runState, pc, item, wcc, wss, err, budgets,
                   anyGet, dedup, lateNotify>>

----------------------------------------------------------------------------
\* The workers: runWorker, processNextWorkItem and syncHandler.  A step ends
\* at an API call, which is where executions interleave.

\* A step of worker w that leaves syncHandler running at position next.
Continues(w, next, log, held, wrote) ==
    /\ pc' = [pc EXCEPT ![w] = next]
    /\ wlog' = [wlog EXCEPT ![w] = log]
    /\ wss' = [wss EXCEPT ![w] = held]
    /\ lastHeld' = IF wrote THEN [lastHeld EXCEPT ![item[w]] = NoLast]
                   ELSE lastHeld
    /\ UNCHANGED <<item, err>>

\* A step of worker w with which syncHandler returns, with error e.
Returns(w, e, log, held, wrote) ==
    /\ pc' = [pc EXCEPT ![w] = "finish"]
    /\ err' = [err EXCEPT ![w] = e]
    /\ wlog' = [wlog EXCEPT ![w] = log]
    /\ wss' = [wss EXCEPT ![w] = held]
    /\ lastHeld' = IF ~e THEN [lastHeld EXCEPT ![item[w]] =
                                  [ok |-> TRUE, ss |-> held]]
                   ELSE IF wrote THEN [lastHeld EXCEPT ![item[w]] = NoLast]
                   ELSE lastHeld
    /\ UNCHANGED item

\* An API call fails for a transient reason.
Failing == apiFailLeft > 0 /\ apiFailLeft' = apiFailLeft - 1
Working == apiFailLeft' = apiFailLeft

\* obj.(string) of processNextWorkItem.
IsString(i) == i # NotAString

\* cache.SplitMetaNamespaceKey: a key of one or two parts is split, any other
\* is an error.
SplitOk(i) == i # BadKey

\* What the start of a pass finds: the item is no string (processNextWorkItem),
\* the key cannot be split, the lister fails, or the lister has the
\* CassandraCluster or reports it not found.
Lookup(i, lister, fails) ==
    IF ~IsString(i) THEN "notstring"
    ELSE IF ~SplitOk(i) THEN "badkey"
    ELSE IF fails THEN "error"
    ELSE IF i \in Keys /\ lister[i].exists THEN "found"
    ELSE "notfound"

\* A pass that returns the lister's not found as an error.
DropsQuietly_BadKeyOnly(o) == o \in {"notstring", "badkey"}

\* The outcomes on which the pass ends with nil before any call: HandleError
\* and return nil.
DropsQuietly(o) == o \in {"notstring", "badkey", "notfound"}

\* A name check that lets every CassandraCluster through.
NameMissing_Never(c) == FALSE

\* statefulsetName == ""
NameMissing(c) == ~c.name

\* processNextWorkItem: Get returns the head of the queue; syncHandler splits
\* the key, reads the CassandraCluster from the lister and checks
\* spec.statefulsetName.  Not found or an empty name: return nil.
Dequeue(w, listerFails) ==
    /\ pc[w] = "idle"
    /\ workqueue.queue # <<>>
    /\ \E fails \in {FALSE, listerFails} :
       LET k == Head(workqueue.queue)
           o == Lookup(k, ccCache, fails)
           c == IF o = "found" THEN ccCache[k] ELSE NoCC
           seen == IF k \in Keys THEN ccSeen[k] ELSE FALSE
           before == IF k \in Keys THEN lastHeld[k].ok ELSE FALSE
           log == [EmptyLog EXCEPT !.afterOk = before, !.lookup = o]
           quiet == DropsQuietly(o) \/ (o = "found" /\ NameMissing(c))
       IN  /\ IF fails THEN o = "error" /\ Failing ELSE Working
           /\ workqueue' = QGet(workqueue)
           /\ item' = [item EXCEPT ![w] = k]
           /\ anyGet' = TRUE
           /\ dedup' = [x \in Keys |->
                           IF x # k THEN dedup[x]
                           ELSE CASE dedup[x] = "enqueued" -> "once"
                                  [] dedup[x] = "once" -> "twice"
                                  [] OTHER -> dedup[x]]
           /\ lateNotify' = [x \in Keys |-> lateNotify[x] /\ x # k]
           /\ wlog' = [wlog EXCEPT ![w] = log]
           /\ wss' = [wss EXCEPT ![w] = NoSS]
           /\ wcc' = [wcc EXCEPT ![w] = [obj |-> c, fresh |-> seen /\ o = "found"]]
           /\ err' = [err EXCEPT ![w] = (o = "error")]
           /\ pc' = [pc EXCEPT ![w] =
                        IF quiet \/ o = "error" THEN "finish" ELSE "svcU"]
           /\ lastHeld' = [x \in Keys |->
                              IF x = k /\ quiet THEN NoLast ELSE lastHeld[x]]
    /\ UNCHANGED <<api, caches, runState, extLeft>>

\* The lister is the informer's indexer, which only ever reports not found.
GetItem(w) == Dequeue(w, FALSE)

\* wait.Until in the goroutine Run launched: it returns when stopCh is closed
\* already, and calls runWorker otherwise.
WorkerStart(w) ==
    /\ pc[w] = "started"
    /\ pc' = [pc EXCEPT ![w] = IF runState = "running" THEN "idle" ELSE "exited"]
    /\ UNCHANGED <<api, caches, workqueue, runState, item, wcc, wss, err, wlog,
                   budgets, history>>

\* processNextWorkItem: Get reports shutdown, runWorker returns.
WorkerExit(w) ==
    /\ pc[w] = "idle"
    /\ workqueue.queue = <<>>
    /\ workqueue.shuttingDown
    /\ pc' = [pc EXCEPT ![w] = "exited"]
    /\ UNCHANGED <<api, caches, workqueue, runState, item, wcc, wss, err, wlog,
                   budgets, history>>

\* A get-or-create of a service that goes on to the next resource whatever
\* Get and Create returned.
EnsureService_NoAbort(w, at, field, next) ==
    /\ pc[w] = at
    /\ LET k == item[w]
           got == [wlog[w] EXCEPT !.gets = @ + 1]
           made == [got EXCEPT !.svcCreates = @ + 1]
       IN  \/ /\ svcs[k][field]
              /\ Working
              /\ Continues(w, next, got, wss[w], FALSE)
              /\ svcs' = svcs
           \/ /\ Failing
              /\ Continues(w, next, got, wss[w], FALSE)
              /\ svcs' = svcs
           \/ /\ ~svcs[k][field]
              /\ Working
              /\ svcs' = [svcs EXCEPT ![k][field] = TRUE]
              /\ Continues(w, next, made, wss[w], TRUE)
           \/ /\ ~svcs[k][field]
              /\ Failing
              /\ Continues(w, next, made, wss[w], FALSE)
              /\ svcs' = svcs
    /\ UNCHANGED <<cc, ss, caches, workqueue, runState, wcc, extLeft, anyGet,
                   dedup, lateNotify>>

\* Services(ns).Get of one of the two services, Create when it is not found;
\* any other error of Get, and any error of Create, is returned.
EnsureService(w, at, field, next) ==
    /\ pc[w] = at
    /\ LET k == item[w]
           got == [wlog[w] EXCEPT !.gets = @ + 1]
           made == [got EXCEPT !.svcCreates = @ + 1]
       IN  \/ /\ svcs[k][field]
              /\ Working
              /\ Continues(w, next, got, wss[w], FALSE)
              /\ svcs' = svcs
           \/ /\ Failing
              /\ Returns(w, TRUE, got, wss[w], FALSE)
              /\ svcs' = svcs
           \/ /\ ~svcs[k][field]
              /\ Working
              /\ svcs' = [svcs EXCEPT ![k][field] = TRUE]
              /\ Continues(w, next, made, wss[w], TRUE)
           \/ /\ ~svcs[k][field]
              /\ Failing
              /\ Returns(w, TRUE, made, wss[w], FALSE)
              /\ svcs' = svcs
    /\ UNCHANGED <<cc, ss, caches, workqueue, runState, wcc, extLeft, anyGet,
                   dedup, lateNotify>>

\* statefulsetsLister.Get, and StatefulSets(ns).Create(newStatefulSet) when
\* the lister reports not found; any other error of the lister, and any
\* error of Create, is returned.
GetOrCreateStatefulSet(w, listerFails) ==
    /\ pc[w] = "ss"
    /\ LET k == item[w]
           s == ssCache[k]
           log == [wlog[w] EXCEPT !.sameView = (s = lastHeld[k].ss),
                                  !.gets = @ + 1]
           made == [log EXCEPT !.ssCreates = @ + 1]
           new == Defaulted(newStatefulSet(k, wcc[w].obj))
       IN  \/ /\ s.exists
              /\ Working
              /\ Continues(w, "upd", log, s, FALSE)
              /\ UNCHANGED <<ss, ssSeen>>
           \/ /\ listerFails
              /\ Failing
              /\ Returns(w, TRUE, log, NoSS, FALSE)
              /\ UNCHANGED <<ss, ssSeen>>
           \/ /\ ~s.exists /\ ss[k].exists      \* AlreadyExists
              /\ Working
              /\ Returns(w, TRUE, made, NoSS, FALSE)
              /\ UNCHANGED <<ss, ssSeen>>
           \/ /\ ~s.exists /\ ~ss[k].exists
              /\ Failing
              /\ Returns(w, TRUE, made, NoSS, FALSE)
              /\ UNCHANGED <<ss, ssSeen>>
           \/ /\ ~s.exists /\ ~ss[k].exists
              /\ Working
              /\ ss' = [ss EXCEPT ![k] = new]
              /\ ssSeen' = [ssSeen EXCEPT ![k] = FALSE]
              /\ Continues(w, "upd", made, new, TRUE)
    /\ UNCHANGED <<cc, svcs, ccCache, ccSeen, ssCache, ccSynced, ssSynced,
                   workqueue, runState, wcc, extLeft, anyGet, dedup, lateNotify>>

\* The lister is the informer's indexer, which only ever reports not found.
EnsureStatefulSet(w) == GetOrCreateStatefulSet(w, FALSE)

\* A drift test that compares the whole StatefulSet with the one
\* newStatefulSet makes.
Drifted_AnyDifference(c, s) ==
    (c.replicas # 0 /\ c.replicas # s.replicas) \/ s.rest # "made"

\* A drift test against the replicas the StatefulSet reports running.
Drifted_Status(c, s) == c.replicas # 0 /\ c.replicas # s.cur

\* A drift test that fires whenever spec.replicas is set.
Drifted_Always(c, s) == c.replicas # 0

\* The drift test of syncHandler: spec.replicas is set and is not the
\* replica count of the StatefulSet held.
Drifted(c, s) == c.replicas # 0 /\ c.replicas # s.replicas

\* The ownership check, then StatefulSets(ns).Update(newStatefulSet) when the
\* replica counts differ.
UpdateStatefulSet(w) ==
    /\ pc[w] = "upd"
    /\ LET k == item[w]
           c == wcc[w].obj
           s == wss[w]
           log == [wlog[w] EXCEPT !.seenReplicas = s.replicas]
           sent == [log EXCEPT !.ssUpdates = @ + 1, !.updReplicas = c.replicas]
           new == Replaced(ss[k], newStatefulSet(k, c))
       IN  \/ /\ ~IsControlledBy(s, k)
              /\ Working
              /\ Returns(w, TRUE, [wlog[w] EXCEPT !.warnings = @ + 1], s, FALSE)
              /\ UNCHANGED <<ss, ssSeen>>
           \/ /\ IsControlledBy(s, k) /\ ~Drifted(c, s)
              /\ Working
              /\ Continues(w, "status", log, s, FALSE)
              /\ UNCHANGED <<ss, ssSeen>>
           \/ /\ IsControlledBy(s, k) /\ Drifted(c, s)
              /\ ~ss[k].exists                  \* NotFound
              /\ Working
              /\ Returns(w, TRUE, sent, NoSS, FALSE)
              /\ UNCHANGED <<ss, ssSeen>>
           \/ /\ IsControlledBy(s, k) /\ Drifted(c, s)
              /\ ss[k].exists
              /\ Failing
              /\ Returns(w, TRUE, sent, NoSS, FALSE)
              /\ UNCHANGED <<ss, ssSeen>>
           \/ /\ IsControlledBy(s, k) /\ Drifted(c, s)
              /\ ss[k].exists
              /\ Working
              /\ ss' = [ss EXCEPT ![k] = new]
              /\ ssSeen' = [ssSeen EXCEPT ![k] = ssSeen[k] /\ new = ss[k]]
              /\ Continues(w, "status", sent, new, new # ss[k])
    /\ UNCHANGED <<cc, svcs, ccCache, ccSeen, ssCache, ccSynced, ssSynced,
                   workqueue, runState, wcc, extLeft, anyGet, dedup, lateNotify>>

\* A status copy that carries spec.replicas of the StatefulSet.
StatusCopy_SpecReplicas(c, s) == [c EXCEPT !.cur = s.replicas]

\* A status copy that reports the replicas the CassandraCluster asks for.
StatusCopy_Desired(c, s) == [c EXCEPT !.cur = c.replicas]

\* updateCassandraClusterStatus: DeepCopy of the CassandraCluster, with
\* Status.CurrentReplicas = statefulset.Status.CurrentReplicas.
StatusCopy(c, s) == [c EXCEPT !.cur = s.cur]

\* A status update that sets Status.CurrentReplicas on the object the lister
\* returned, which is the object in the informer's store as long as the
\* informer has not replaced it.
updateCassandraClusterStatus_InPlace(store, k, c, s) ==
    [sent |-> StatusCopy(c, s),
     store |-> [store EXCEPT ![k] = IF @ = c THEN StatusCopy(c, s) ELSE @]]

\* updateCassandraClusterStatus: the object it sends with Update, and the
\* informer's store after it: the change is made on the DeepCopy.
updateCassandraClusterStatus(store, k, c, s) ==
    [sent |-> StatusCopy(c, s), store |-> store]

\* A last step that records the Synced event before it looks at the error of
\* the status update.
UpdateStatus_EventFirst(w) ==
    /\ pc[w] = "status"
    /\ LET k == item[w]
           call == updateCassandraClusterStatus(ccCache, k, wcc[w].obj, wss[w])
           copy == call.sent
           sent == [wlog[w] EXCEPT !.statusWrites = @ + 1,
                                   !.statusSent = copy.cur, !.synced = @ + 1]
           failed == [sent EXCEPT !.statusFailed = TRUE]
       IN  /\ ccCache' = call.store
           /\ \/ /\ ~wcc[w].fresh
                 /\ Working
                 /\ Returns(w, TRUE, failed, wss[w], FALSE)
                 /\ UNCHANGED <<cc, ccSeen, wcc>>
              \/ /\ wcc[w].fresh
                 /\ Failing
                 /\ Returns(w, TRUE, failed, wss[w], FALSE)
                 /\ UNCHANGED <<cc, ccSeen, wcc>>
              \/ /\ wcc[w].fresh
                 /\ Working
                 /\ cc' = [cc EXCEPT ![k] = copy]
                 /\ ccSeen' = [ccSeen EXCEPT ![k] = ccSeen[k] /\ copy = cc[k]]
                 /\ wcc' = IF copy = cc[k] THEN wcc ELSE Outdated(wcc, k)
                 /\ Returns(w, FALSE, sent, wss[w], FALSE)
    /\ UNCHANGED <<svcs, ss, ssCache, ssSeen, ccSynced, ssSynced,
                   workqueue, runState, extLeft, anyGet, dedup, lateNotify>>

\* updateCassandraClusterStatus sends the copy with Update; then syncHandler
\* records the Synced event and returns nil.
UpdateStatus(w) ==
    /\ pc[w] = "status"
    /\ LET k == item[w]
           call == updateCassandraClusterStatus(ccCache, k, wcc[w].obj, wss[w])
           copy == call.sent
           sent == [wlog[w] EXCEPT !.statusWrites = @ + 1, !.statusSent = copy.cur]
           failed == [sent EXCEPT !.statusFailed = TRUE]
       IN  /\ ccCache' = call.store
           /\ \/ /\ ~wcc[w].fresh               \* Conflict
                 /\ Working
                 /\ Returns(w, TRUE, failed, wss[w], FALSE)
                 /\ UNCHANGED <<cc, ccSeen, wcc>>
              \/ /\ wcc[w].fresh
                 /\ Failing
                 /\ Returns(w, TRUE, failed, wss[w], FALSE)
                 /\ UNCHANGED <<cc, ccSeen, wcc>>
              \/ /\ wcc[w].fresh
                 /\ Working
                 /\ cc' = [cc EXCEPT ![k] = copy]
                 /\ ccSeen' = [ccSeen EXCEPT ![k] = ccSeen[k] /\ copy = cc[k]]
                 /\ wcc' = IF copy = cc[k] THEN wcc ELSE Outdated(wcc, k)
                 /\ Returns(w, FALSE, [sent EXCEPT !.synced = @ + 1], wss[w],
                            FALSE)
    /\ UNCHANGED <<svcs, ss, ssCache, ssSeen, ccSynced, ssSynced,
                   workqueue, runState, extLeft, anyGet, dedup, lateNotify>>

\* An end of processNextWorkItem that leaves out Done when syncHandler
\* returned an error.
FinishItem_NoDoneOnError(q, k, e) ==
    IF e THEN q ELSE QDone(QForget(q, k), k)

\* An end of processNextWorkItem that calls Forget whatever syncHandler
\* returned.
FinishItem_ForgetAlways(q, k, e) == QDone(QForget(q, k), k)

\* An end of processNextWorkItem that puts the key back after an error.
FinishItem_Requeue(q, k, e) ==
    QDone(IF e THEN QAddRateLimited(q, k) ELSE QForget(q, k), k)

\* The end of processNextWorkItem: Forget when syncHandler returned nil, the
\* error is only handed to HandleError otherwise; then the deferred Done.
FinishItem(q, k, e) == QDone(IF e THEN q ELSE QForget(q, k), k)

Finish(w) ==
    /\ pc[w] = "finish"
    /\ workqueue' = FinishItem(workqueue, item[w], err[w])
    /\ pc' = [pc EXCEPT ![w] = "idle"]
    /\ item' = [item EXCEPT ![w] = NoItem]
    /\ wcc' = [wcc EXCEPT ![w] = NoHeld]
    /\ wss' = [wss EXCEPT ![w] = NoSS]
    /\ err' = [err EXCEPT ![w] = FALSE]
    /\ wlog' = [wlog EXCEPT ![w] = EmptyLog]
    /\ UNCHANGED <<api, caches, runState, budgets, history>>

\* runtime.ReallyCrash, which the controller leaves at the library's default:
\* HandleCrash logs the panic it recovered and panics again.
ReallyCrash == TRUE

\* A panic inside syncHandler (a nil dereference, a panic in a client call).
\* Nothing in processNextWorkItem or runWorker recovers: the deferred Done
\* runs while the stack unwinds, Forget does not, and the panic reaches the
\* HandleCrash that wait.Until defers around runWorker.  Panicking again
\* there ends the process, and with it every worker; when the panic is
\* swallowed, wait.Until calls runWorker again.
Panic(w) ==
    /\ pc[w] \in InSync
    /\ workqueue' = QDone(workqueue, item[w])
    /\ pc' = IF ReallyCrash THEN [v \in Workers |-> "crashed"]
             ELSE [pc EXCEPT ![w] = "idle"]
    /\ runState' = IF ReallyCrash THEN "crashed" ELSE runState
    /\ item' = [item EXCEPT ![w] = NoItem]
    /\ wcc' = [wcc EXCEPT ![w] = NoHeld]
    /\ wss' = [wss EXCEPT ![w] = NoSS]
    /\ err' = [err EXCEPT ![w] = FALSE]
    /\ wlog' = [wlog EXCEPT ![w] = EmptyLog]
    /\ UNCHANGED <<api, caches, budgets, history>>

----------------------------------------------------------------------------
\* What the informers, the delaying queue and the workers do.
Controller ==
    \/ InitialListCC
    \/ InitialListSS
    \/ CachesSynced
    \/ \E k \in Keys :
         \/ DeliverCC(k)
         \/ DeliverSS(k)
         \/ TimerFire(k)
    \/ \E w \in Workers :
         \/ WorkerStart(w)
         \/ GetItem(w)
         \/ EnsureService(w, "svcU", "unready", "svc")
         \/ EnsureService(w, "svc", "headless", "ss")
         \/ EnsureStatefulSet(w)
         \/ UpdateStatefulSet(w)
         \/ UpdateStatus(w)
         \/ Finish(w)

\* What users and the other controllers of the cluster do.
World ==
    \E k \in Keys :
       \/ SSController(k)
       \/ ExtDeleteSS(k)
       \/ ExtDeleteCC(k)
       \/ \E r \in ReplicaValues \cup {0} :
            \/ \E nm \in BOOLEAN : ExtCreateCC(k, nm, r)
            \/ ExtEditCC(k, r)
       \/ \E r \in ReplicaValues :
            \/ ExtForeignSS(k, r)
            \/ ExtScaleSS(k, r)

\* The controller in a changing cluster.
Next == Controller \/ World

Spec == Init /\ [][Next]_vars

\* The controller with its periodic resync and its stop signal, in a cluster
\* in which only the StatefulSet controller acts besides it.
QueueNext ==
    \/ Controller
    \/ Stop
    \/ \E w \in Workers : WorkerExit(w)
    \/ \E k \in Keys :
         \/ ResyncCC(k)
         \/ ResyncSS(k)
         \/ SSController(k)

\* The Go scheduler runs every goroutine that can take a step: the workers,
\* the informers' delivery and the delaying queue's waiting loop.  Nothing
\* obliges the resync, the stop signal or the StatefulSet controller.
Fairness ==
    /\ \A w \in Workers :
         /\ WF_vars(WorkerStart(w))
         /\ WF_vars(GetItem(w))
         /\ WF_vars(WorkerExit(w))
         /\ WF_vars(EnsureService(w, "svcU", "unready", "svc"))
         /\ WF_vars(EnsureService(w, "svc", "headless", "ss"))
         /\ WF_vars(EnsureStatefulSet(w))
         /\ WF_vars(UpdateStatefulSet(w))
         /\ WF_vars(UpdateStatus(w))
         /\ WF_vars(Finish(w))
    /\ \A k \in Keys :
         /\ WF_vars(DeliverCC(k))
         /\ WF_vars(DeliverSS(k))
         /\ WF_vars(TimerFire(k))
    /\ WF_vars(InitialListCC)
    /\ WF_vars(InitialListSS)
    /\ WF_vars(CachesSynced)

QueueSpec == Init /\ [][QueueNext]_vars /\ Fairness

\* The workers on one item, whatever it is: the caches have synced, a
\* handler's AddRateLimited has put the item on the queue, and the cluster
\* holds any of the objects a pass may find.  The lister is taken as the
\* interface it is, so its Get may fail.
SyncInit ==
    /\ cc \in [Keys -> SomeCC \cup {NoCC}]
    /\ svcs \in [Keys -> {NoSvcs, [unready |-> TRUE, headless |-> TRUE]}]
    /\ ss \in [Keys -> {NoSS, ForeignSS(1)}
                        \cup {Defaulted(newStatefulSet(k, c)) :
                                 k \in Keys, c \in SomeCC}
                        \cup {Edited(Defaulted(newStatefulSet(k, c))) :
                                 k \in Keys, c \in SomeCC}]
    /\ ccCache = cc
    /\ ccSeen = [k \in Keys |-> TRUE]
    /\ ssCache = ss
    /\ ssSeen = [k \in Keys |-> TRUE]
    /\ ccSynced = TRUE
    /\ ssSynced = TRUE
    /\ \E i \in Items :
          workqueue = QReady(QAddRateLimited(EmptyQueue, i), i)
    /\ runState = "running"
    /\ pc = [w \in Workers |-> "idle"]
    /\ item = [w \in Workers |-> NoItem]
    /\ wcc = [w \in Workers |-> NoHeld]
    /\ wss = [w \in Workers |-> NoSS]
    /\ err = [w \in Workers |-> FALSE]
    /\ wlog = [w \in Workers |-> EmptyLog]
    /\ extLeft = 0
    /\ apiFailLeft = MaxApiFailures
    /\ anyGet = FALSE
    /\ dedup = [k \in Keys |-> "enqueued"]
    /\ lateNotify = [k \in Keys |-> FALSE]
    /\ lastHeld = [k \in Keys |-> NoLast]

SyncNext ==
    \E w \in Workers :
       \/ Dequeue(w, TRUE)
       \/ EnsureService(w, "svcU", "unready", "svc")
       \/ EnsureService(w, "svc", "headless", "ss")
       \/ GetOrCreateStatefulSet(w, TRUE)
       \/ UpdateStatefulSet(w)
       \/ UpdateStatus(w)
       \/ Finish(w)

\* The worker goroutines are scheduled.
SyncFairness ==
    \A w \in Workers :
       /\ WF_vars(Dequeue(w, TRUE))
       /\ WF_vars(EnsureService(w, "svcU", "unready", "svc"))
       /\ WF_vars(EnsureService(w, "svc", "headless", "ss"))
       /\ WF_vars(GetOrCreateStatefulSet(w, TRUE))
       /\ WF_vars(UpdateStatefulSet(w))
       /\ WF_vars(UpdateStatus(w))
       /\ WF_vars(Finish(w))

SyncSpec == SyncInit /\ [][SyncNext]_vars /\ SyncFairness

\* The workers on two items, with a syncHandler that may panic.
PanicInit ==
    /\ cc \in [Keys -> SomeCC]
    /\ svcs \in [Keys -> {NoSvcs, [unready |-> TRUE, headless |-> TRUE]}]
    /\ ss \in [Keys -> {NoSS, ForeignSS(1)}
                        \cup {Defaulted(newStatefulSet(k, c)) :
                                 k \in Keys, c \in SomeCC}]
    /\ ccCache = cc
    /\ ccSeen = [k \in Keys |-> TRUE]
    /\ ssCache = ss
    /\ ssSeen = [k \in Keys |-> TRUE]
    /\ ccSynced = TRUE
    /\ ssSynced = TRUE
    /\ \E i, j \in Items :
          /\ i # j
          /\ workqueue = QReady(QAddRateLimited(
                             QReady(QAddRateLimited(EmptyQueue, i), i), j), j)
    /\ runState = "running"
    /\ pc = [w \in Workers |-> "idle"]
    /\ item = [w \in Workers |-> NoItem]
    /\ wcc = [w \in Workers |-> NoHeld]
    /\ wss = [w \in Workers |-> NoSS]
    /\ err = [w \in Workers |-> FALSE]
    /\ wlog = [w \in Workers |-> EmptyLog]
    /\ extLeft = 0
    /\ apiFailLeft = MaxApiFailures
    /\ anyGet = FALSE
    /\ dedup = [k \in Keys |-> "enqueued"]
    /\ lateNotify = [k \in Keys |-> FALSE]
    /\ lastHeld = [k \in Keys |-> NoLast]

PanicNext ==
    \/ SyncNext
    \/ \E w \in Workers : Panic(w)

PanicSpec == PanicInit /\ [][PanicNext]_vars /\ SyncFairness

----------------------------------------------------------------------------
\* The StatefulSet service of pkg/operator/service: EnsureStatefulset and
\* CreateOrUpdateStatefulSet, called by the operator's handler for a
\* CassandraCluster.  Here a StatefulSet carries its resourceVersion (rv; 0 is
\* the empty string of an object that was never stored), and the record of an
\* absent StatefulSet keeps the last version of the name.

NoStored == [exists |-> FALSE, owner |-> "foreign", replicas |-> 0, cur |-> 0,
             rest |-> "made", rv |-> 0]

Versioned(s, v) ==
    [exists |-> s.exists, owner |-> s.owner, replicas |-> s.replicas,
     cur |-> s.cur, rest |-> s.rest, rv |-> v]

\* generateCassandraStatefulSet: a controller reference to the
\* CassandraCluster, Replicas of its spec, no resourceVersion.
generateCassandraStatefulSet(k, c) == Versioned(newStatefulSet(k, c), 0)

\* An update that leaves the resourceVersion of the generated object empty.
WithResourceVersion_Unset(s, stored) == s

\* statefulSet.ResourceVersion = storedStatefulSet.ResourceVersion
WithResourceVersion(s, stored) == [s EXCEPT !.rv = stored.rv]

\* The API server on Update: an empty resourceVersion is an unconditional
\* update, any other must be the stored one.
VersionAccepted(sent, stored) == sent.rv = 0 \/ sent.rv = stored.rv

EnsureInit ==
    /\ cc \in [Keys -> {c \in SomeCC : c.name}]
    /\ svcs = [k \in Keys |-> NoSvcs]
    /\ ss \in [Keys -> {NoStored, Versioned(ForeignSS(1), 1)}
                        \cup {Versioned(Defaulted(newStatefulSet(k, c)), 1) :
                                 k \in Keys, c \in SomeCC}]
    /\ ccCache = [k \in Keys |-> NoCC]
    /\ ccSeen = [k \in Keys |-> TRUE]
    /\ ssCache = [k \in Keys |-> NoSS]
    /\ ssSeen = [k \in Keys |-> TRUE]
    /\ ccSynced = FALSE
    /\ ssSynced = FALSE
    /\ workqueue = EmptyQueue
    /\ runState = "running"
    /\ pc = [w \in Workers |-> "idle"]
    /\ item = [w \in Workers |-> NoItem]
    /\ wcc = [w \in Workers |-> NoHeld]
    /\ wss = [w \in Workers |-> NoStored]
    /\ err = [w \in Workers |-> FALSE]
    /\ wlog = [w \in Workers |-> EmptyLog]
    /\ extLeft = MaxExternal
    /\ apiFailLeft = MaxApiFailures
    /\ anyGet = FALSE
    /\ dedup = [k \in Keys |-> "none"]
    /\ lateNotify = [k \in Keys |-> FALSE]
    /\ lastHeld = [k \in Keys |-> NoLast]

\* What a step of a call leaves alone.
CallFrame ==
    UNCHANGED <<cc, svcs, caches, workqueue, runState, extLeft, history>>

\* EnsureStatefulset(cc): the StatefulSet is generated and
\* CreateOrUpdateStatefulSet is called with it.
EnsureStatefulset(w, k) ==
    /\ pc[w] = "idle"
    /\ cc[k].exists
    /\ pc' = [pc EXCEPT ![w] = "get"]
    /\ item' = [item EXCEPT ![w] = k]
    /\ wcc' = [wcc EXCEPT ![w] = [obj |-> cc[k], fresh |-> TRUE]]
    /\ wss' = [wss EXCEPT ![w] = NoStored]
    /\ err' = [err EXCEPT ![w] = FALSE]
    /\ wlog' = [wlog EXCEPT ![w] = EmptyLog]
    /\ UNCHANGED <<ss, apiFailLeft>>
    /\ CallFrame

\* GetStatefulSet, and what CreateOrUpdateStatefulSet does with its error:
\* not found leads to the Create, any other error is returned.
GetStatefulSet(w) ==
    /\ pc[w] = "get"
    /\ LET k == item[w]
           got == [wlog[w] EXCEPT !.gets = @ + 1]
       IN  \/ /\ Failing
              /\ pc' = [pc EXCEPT ![w] = "done"]
              /\ err' = [err EXCEPT ![w] = TRUE]
              /\ wlog' = [wlog EXCEPT ![w] = [got EXCEPT !.lookup = "error"]]
              /\ UNCHANGED wss
           \/ /\ Working /\ ~ss[k].exists
              /\ pc' = [pc EXCEPT ![w] = "create"]
              /\ wlog' = [wlog EXCEPT ![w] = [got EXCEPT !.lookup = "notfound"]]
              /\ UNCHANGED <<wss, err>>
           \/ /\ Working /\ ss[k].exists
              /\ pc' = [pc EXCEPT ![w] = "update"]
              /\ wss' = [wss EXCEPT ![w] = ss[k]]
              /\ wlog' = [wlog EXCEPT ![w] = [got EXCEPT !.lookup = "found"]]
              /\ UNCHANGED err
    /\ UNCHANGED <<ss, item, wcc>>
    /\ CallFrame

\* A write of the call returns, with error e, and so does the call.
WriteReturns(w, log, e) ==
    /\ pc' = [pc EXCEPT ![w] = "done"]
    /\ err' = [err EXCEPT ![w] = e]
    /\ wlog' = [wlog EXCEPT ![w] = [log EXCEPT !.writeFailed = e]]
    /\ UNCHANGED <<item, wcc, wss>>
    /\ CallFrame

\* CreateStatefulSet: StatefulSets(ns).Create, its error returned.
CreateStatefulSet(w) ==
    /\ pc[w] = "create"
    /\ LET k == item[w]
           sent == generateCassandraStatefulSet(k, wcc[w].obj)
           log == [wlog[w] EXCEPT !.ssCreates = @ + 1]
       IN  \/ /\ Failing
              /\ WriteReturns(w, log, TRUE)
              /\ UNCHANGED ss
           \/ /\ Working /\ ss[k].exists        \* AlreadyExists
              /\ WriteReturns(w, log, TRUE)
              /\ UNCHANGED ss
           \/ /\ Working /\ ~ss[k].exists
              /\ ss[k].rv < MaxVersion
              /\ ss' = [ss EXCEPT ![k] = Versioned(Defaulted(sent), ss[k].rv + 1)]
              /\ WriteReturns(w, log, FALSE)

\* The resourceVersion is set to the stored one, then UpdateStatefulSet:
\* StatefulSets(ns).Update, its error returned.
StoredUpdate(w) ==
    /\ pc[w] = "update"
    /\ LET k == item[w]
           sent == WithResourceVersion(
                      generateCassandraStatefulSet(k, wcc[w].obj), wss[w])
           log == [wlog[w] EXCEPT !.ssUpdates = @ + 1, !.sentVersion = sent.rv]
           new == Versioned(Replaced(ss[k], sent), ss[k].rv)
       IN  \/ /\ Failing
              /\ WriteReturns(w, log, TRUE)
              /\ UNCHANGED ss
           \/ /\ Working /\ ~ss[k].exists       \* NotFound
              /\ WriteReturns(w, log, TRUE)
              /\ UNCHANGED ss
           \/ /\ Working /\ ss[k].exists
              /\ ~VersionAccepted(sent, ss[k])   \* Conflict
              /\ WriteReturns(w, log, TRUE)
              /\ UNCHANGED ss
           \/ /\ Working /\ ss[k].exists
              /\ VersionAccepted(sent, ss[k])
              /\ new = ss[k]
              /\ WriteReturns(w, log, FALSE)
              /\ UNCHANGED ss
           \/ /\ Working /\ ss[k].exists
              /\ VersionAccepted(sent, ss[k])
              /\ new # ss[k]
              /\ ss[k].rv < MaxVersion
              /\ ss' = [ss EXCEPT ![k] = Versioned(new, ss[k].rv + 1)]
              /\ WriteReturns(w, log, FALSE)

\* CreateOrUpdateStatefulSet: the Get, then the Create or the Update.
CreateOrUpdateStatefulSet(w) ==
    \/ GetStatefulSet(w)
    \/ CreateStatefulSet(w)
    \/ StoredUpdate(w)

\* The handler has the result of EnsureStatefulset and returns it.
EnsureReturns(w) ==
    /\ pc[w] = "done"
    /\ pc' = [pc EXCEPT ![w] = "idle"]
    /\ item' = [item EXCEPT ![w] = NoItem]
    /\ wcc' = [wcc EXCEPT ![w] = NoHeld]
    /\ wss' = [wss EXCEPT ![w] = NoStored]
    /\ err' = [err EXCEPT ![w] = FALSE]
    /\ wlog' = [wlog EXCEPT ![w] = EmptyLog]
    /\ UNCHANGED <<ss, apiFailLeft>>
    /\ CallFrame

\* Somebody else writes the StatefulSet between two calls of the service.
StoredChanges(k, new) ==
    /\ extLeft > 0
    /\ ss[k].rv < MaxVersion
    /\ extLeft' = extLeft - 1
    /\ ss' = [ss EXCEPT ![k] = Versioned(new, ss[k].rv + 1)]
    /\ UNCHANGED <<cc, svcs, caches, workqueue, runState, worker, apiFailLeft,
                   history>>

ExtScaleStored(k, r) ==
    /\ ss[k].exists /\ ss[k].replicas # r
    /\ StoredChanges(k, [ss[k] EXCEPT !.replicas = r])

ExtDeleteStored(k) ==
    /\ ss[k].exists
    /\ StoredChanges(k, NoStored)

ExtCreateStored(k, r) ==
    /\ ~ss[k].exists
    /\ StoredChanges(k, ForeignSS(r))

EnsureNext ==
    \/ \E w \in Workers :
         \/ \E k \in Keys : EnsureStatefulset(w, k)
         \/ CreateOrUpdateStatefulSet(w)
         \/ EnsureReturns(w)
    \/ \E k \in Keys :
         \/ ExtDeleteStored(k)
         \/ \E r \in ReplicaValues :
              \/ ExtScaleStored(k, r)
              \/ ExtCreateStored(k, r)

EnsureSpec == EnsureInit /\ [][EnsureNext]_vars

----------------------------------------------------------------------------
\* The keys on the queue.
Queued(q) == {q.queue[i] : i \in 1..Len(q.queue)}

\* C1: at no time are two executions of syncHandler for the same key in
\* progress, whatever the notifications and the workers do.
MutualExclusion ==
    \A w1, w2 \in Workers :
        (w1 # w2 /\ pc[w1] \in InSync /\ pc[w2] \in InSync) => item[w1] # item[w2]

\* A key was added again while a worker runs syncHandler on it, and another
\* worker is waiting in Get.
MutualExclusionTested ==
    \E w1, w2 \in Workers :
        /\ pc[w1] \in InSync /\ item[w1] \in workqueue.dirty
        /\ pc[w2] = "idle"

\* C2: when syncHandler returned an error, processNextWorkItem puts the key
\* back on the queue with AddRateLimited, so that it is synced again without
\* any further notification.
RequeuedAfterError ==
    [][\A w \in Workers :
          (pc[w] = "finish" /\ err[w] /\ pc'[w] = "idle"
             /\ ~workqueue.shuttingDown)
          => item[w] \in workqueue'.waiting]_vars

\* C3: a key enqueued while a worker runs syncHandler on it is dequeued again
\* later, unless the queue is shut down.
NoLostUpdate ==
    \A k \in Keys : lateNotify[k] ~> (~lateNotify[k] \/ workqueue.shuttingDown)

\* syncHandler has returned for a key that was enqueued during the pass, and
\* the queue is not shut down.
LateNotifyAtDone ==
    \E w \in Workers :
        /\ pc[w] = "finish" /\ item[w] \in Keys
        /\ lateNotify[item[w]] /\ ~workqueue.shuttingDown

\* C4: the enqueueCassandraCluster calls for a key made before any worker's
\* first Get give exactly one dequeue of the key when none follows: the key
\* is not dequeued a second time.
DedupBeforeFirstGet == \A k \in Keys : dedup[k] # "twice"

\* C5: a syncHandler pass that follows a successful pass for the key, with
\* the CassandraCluster, the Services and the StatefulSet unchanged since,
\* issues no Create and no Update for the Services and the StatefulSet.
SecondPassWritesNothing ==
    \A w \in Workers :
        wlog[w].afterOk =>
            /\ wlog[w].svcCreates = 0
            /\ wlog[w].ssCreates = 0
            /\ wlog[w].ssUpdates = 0

\* Such a pass issues no Create and no Update when the lister gives it the
\* StatefulSet the successful pass ended with: what it writes, it writes on a
\* lister that lags behind the cluster.
SecondPassSameViewWritesNothing ==
    \A w \in Workers :
        (wlog[w].afterOk /\ wlog[w].sameView) =>
            /\ wlog[w].svcCreates = 0
            /\ wlog[w].ssCreates = 0
            /\ wlog[w].ssUpdates = 0

\* A second pass on unchanged objects went through every step.
SecondPassDone ==
    \E w \in Workers :
        /\ pc[w] = "finish" /\ ~err[w]
        /\ wlog[w].afterOk /\ wlog[w].sameView
        /\ wlog[w].synced = 1

\* C6: with a StatefulSet that the CassandraCluster controls, a pass issues
\* exactly one Update, carrying spec.replicas of the CassandraCluster and
\* answered with the StatefulSet of newStatefulSet, when spec.replicas is set
\* and is not the replica count of the StatefulSet the pass holds; it issues
\* none when spec.replicas is unset or equal.
DriftCorrection ==
    \A w \in Workers :
        wlog[w].seenReplicas # 0 =>
            IF wcc[w].obj.replicas # 0
                 /\ wcc[w].obj.replicas # wlog[w].seenReplicas
            THEN /\ wlog[w].ssUpdates = 1
                 /\ wlog[w].updReplicas = wcc[w].obj.replicas
                 /\ pc[w] = "status" =>
                      /\ wss[w].replicas = wcc[w].obj.replicas
                      /\ wss[w].owner = item[w]
                      /\ wss[w].exists
            ELSE wlog[w].ssUpdates = 0

\* A pass has updated a StatefulSet whose replica count had drifted.
DriftCorrected ==
    \E w \in Workers :
        /\ pc[w] = "status"
        /\ wlog[w].ssUpdates = 1
        /\ wlog[w].seenReplicas # wss[w].replicas

\* C7: the CassandraCluster a pass writes at the status step carries
\* status.currentReplicas of the StatefulSet the pass holds; a pass that went
\* through every step wrote it once; when the write fails, syncHandler
\* returns an error and records no Synced event.
StatusConvergence ==
    \A w \in Workers :
        /\ wlog[w].statusWrites \in {0, 1}
        /\ wlog[w].statusWrites = 1 =>
              /\ pc[w] = "finish"
              /\ wlog[w].statusSent = wss[w].cur
              /\ wlog[w].statusFailed => (err[w] /\ wlog[w].synced = 0)
              /\ ~wlog[w].statusFailed => (~err[w] /\ wlog[w].synced = 1)
        /\ wlog[w].synced = 1 => wlog[w].statusWrites = 1

\* A pass has written the replicas a StatefulSet reports running.
StatusWritten ==
    \E w \in Workers :
        /\ pc[w] = "finish" /\ wlog[w].synced = 1
        /\ wlog[w].statusSent # 0
        /\ cc[item[w]].cur = wlog[w].statusSent

\* C8: when the StatefulSet the lister returns is not controlled by the
\* CassandraCluster, syncHandler returns an error, has issued no Create and
\* no Update for it and no status update, and has recorded one Warning event
\* (ErrResourceExists) and no Synced event.
OwnershipRejection ==
    \A w \in Workers :
        (pc[w] = "finish" /\ wss[w].exists /\ wss[w].owner # item[w]) =>
            /\ err[w]
            /\ wlog[w].ssCreates = 0
            /\ wlog[w].ssUpdates = 0
            /\ wlog[w].statusWrites = 0
            /\ wlog[w].warnings = 1
            /\ wlog[w].synced = 0
            /\ ss[item[w]].exists => ss[item[w]].owner # item[w]

\* A pass ended on a StatefulSet somebody else made.
OwnershipRejected ==
    \E w \in Workers :
        pc[w] = "finish" /\ wss[w].exists /\ wss[w].owner = "foreign"

Quiescent ==
    /\ ccSynced /\ ssSynced /\ runState = "running"
    /\ \A k \in Keys : ccSeen[k] /\ ssSeen[k]
    /\ \A k \in Keys : ss[k].exists => ss[k].cur = ss[k].replicas
    /\ workqueue.queue = <<>> /\ workqueue.waiting = {} /\ workqueue.dirty = {}
    /\ \A w \in Workers : pc[w] = "idle"

Converged(k) ==
    /\ svcs[k].unready /\ svcs[k].headless
    /\ ss[k].exists
    /\ cc[k].replicas # 0 => ss[k].replicas = cc[k].replicas
    /\ cc[k].cur = ss[k].cur

\* C10: for a CassandraCluster with a statefulsetName, in a cluster that held
\* no foreign StatefulSet of that name and that nobody has changed since the
\* controller started, the system comes to rest only in a state in which the
\* Services and the StatefulSet exist, the replica counts agree and the
\* status reports the replicas of the StatefulSet.
RestsOnlyConverged ==
    \A k \in Keys :
        (Quiescent /\ extLeft = MaxExternal
           /\ cc[k].exists /\ cc[k].name
           /\ ~(ss[k].exists /\ ss[k].owner = "foreign"))
        => Converged(k)

----------------------------------------------------------------------------
\* C11: a StatefulSet notification whose controller owner is a
\* CassandraCluster that the cassandraclustersLister does not have adds
\* nothing to the work queue, neither at once nor delayed, and stops nothing.
OrphanDrop ==
    [][\A k \in Keys :
          (DeliverSS(k) /\ Notified(k).owner \in Keys
             /\ ~ccCache[Notified(k).owner].exists)
          => UNCHANGED <<workqueue, runState, pc, err>>]_vars

\* A notification is about to be delivered for a StatefulSet whose owner the
\* lister no longer has.
OrphanNotified ==
    \E k \in Keys :
        /\ ssSynced /\ ~ssSeen[k]
        /\ Notified(k).exists /\ Notified(k).owner \in Keys
        /\ ~ccCache[Notified(k).owner].exists

\* C12: handleObject adds a key to the queue if and only if the notified
\* StatefulSet has a controller owner of kind CassandraCluster that the lister
\* has; it then adds exactly the owner's key, with Add; otherwise the queue
\* is left as it was.
OwnershipRouting ==
    [][\A k \in Keys :
          DeliverSS(k) =>
             LET s == Notified(k)
             IN  IF s.owner \in Keys /\ ccCache[s.owner].exists
                 THEN workqueue' = QAdd(workqueue, s.owner)
                 ELSE workqueue' = workqueue]_vars

\* The routing itself is as stated: the owner's key and no other is handed to
\* the queue, but with AddRateLimited, which counts the call and delays it.
OwnershipRoutingRateLimited ==
    [][\A k \in Keys :
          DeliverSS(k) =>
             LET s == Notified(k)
             IN  IF s.owner \in Keys /\ ccCache[s.owner].exists
                 THEN workqueue' = QAddRateLimited(workqueue, s.owner)
                 ELSE workqueue' = workqueue]_vars

\* A pass of worker w has made no call and recorded no event.
NothingDone(w) ==
    /\ wlog[w].gets = 0
    /\ wlog[w].svcCreates = 0
    /\ wlog[w].ssCreates = 0
    /\ wlog[w].ssUpdates = 0
    /\ wlog[w].statusWrites = 0
    /\ wlog[w].warnings = 0
    /\ wlog[w].synced = 0

\* syncHandler has returned on a CassandraCluster with an empty
\* spec.statefulsetName.
NameMissingAtEnd(w) ==
    pc[w] = "finish" /\ wlog[w].lookup = "found" /\ ~wcc[w].obj.name

\* C13: for a CassandraCluster whose spec.statefulsetName is empty,
\* syncHandler returns no error, has made no Get, Create or Update call and
\* recorded no event, and the pass ends with Forget and Done: the worker does
\* not put the key back.
MissingNameDropped ==
    /\ [](\A w \in Workers : NameMissingAtEnd(w) => (~err[w] /\ NothingDone(w)))
    /\ [][\A w \in Workers :
             (NameMissingAtEnd(w) /\ pc'[w] = "idle") =>
                /\ workqueue' = QDone(QForget(workqueue, item[w]), item[w])
                /\ workqueue'.waiting = workqueue.waiting
                /\ workqueue'.failures[item[w]] = 0
                /\ item[w] \notin workqueue'.processing]_vars

\* Such a pass is at its end, the rate limiter having counted the key.
MissingNameSeen ==
    \E w \in Workers :
        /\ NameMissingAtEnd(w)
        /\ wcc[w].obj.exists
        /\ workqueue.failures[item[w]] > 0

\* syncHandler has returned on a key it could not split or on a key whose
\* CassandraCluster the lister reported not found.
VanishedAtEnd(w) ==
    pc[w] = "finish" /\ wlog[w].lookup \in {"badkey", "notfound"}

\* C14: when the key cannot be split, or the lister reports its
\* CassandraCluster not found, syncHandler returns no error and has made no
\* call, and the pass ends with Forget and Done, the worker not putting the key
\* back; any other error of the lister is returned as the error of the pass.
VanishedKeyDropped ==
    /\ [](\A w \in Workers :
            /\ VanishedAtEnd(w) => (~err[w] /\ NothingDone(w))
            /\ wlog[w].lookup = "error" =>
                  (pc[w] = "finish" /\ err[w] /\ NothingDone(w)))
    /\ [][\A w \in Workers :
             (VanishedAtEnd(w) /\ pc'[w] = "idle") =>
                /\ workqueue' = QDone(QForget(workqueue, item[w]), item[w])
                /\ workqueue'.waiting = workqueue.waiting
                /\ item[w] \notin workqueue'.processing]_vars

\* A pass is at its end on such a key, which the rate limiter has counted.
VanishedKeySeen ==
    \E w \in Workers :
        /\ VanishedAtEnd(w)
        /\ item[w] \in workqueue.processing
        /\ workqueue.failures[item[w]] > 0

\* C15: no worker runs, and so no syncHandler execution begins, before both
\* the StatefulSet cache and the CassandraCluster cache have synced; when the
\* stop signal comes before that, Run returns an error, has started no worker
\* and has shut the queue down.
StartupGate ==
    /\ \A w \in Workers : pc[w] # "off" => (ccSynced /\ ssSynced)
    /\ runState = "syncing" => \A w \in Workers : pc[w] = "off"
    /\ runState = "failed" =>
          /\ \A w \in Workers : pc[w] = "off"
          /\ workqueue.shuttingDown

\* Run was stopped with one cache synced, the other not and a key waiting.
StoppedBeforeSync ==
    /\ runState = "failed"
    /\ ccSynced /\ ~ssSynced
    /\ workqueue.waiting # {}

\* C16: Run returns after the stop signal only when the workers have
\* finished the items they were processing: once Run has returned, no
\* syncHandler execution is in progress.
RunReturnsAfterWorkers ==
    runState = "stopped" =>
        \A w \in Workers : pc[w] \notin InSync \cup {"finish"}

\* The items the workers hold between Get and Done.
InFlight == {item[w] : w \in {x \in Workers : pc[x] \in InSync \cup {"finish"}}}

\* C17: every item a worker got from Get is marked Done before the worker's
\* next Get, whether syncHandler succeeded, failed or dropped the key, or the
\* item was no string: the processing set holds exactly the items of the
\* passes in progress, the step that ends a pass takes its item out, and no
\* item stays in the set forever.
DoneGuaranteed ==
    /\ [](/\ workqueue.processing = InFlight
          /\ \A w \in Workers : pc[w] = "idle" => item[w] = NoItem)
    /\ [][\A w \in Workers :
             (pc[w] = "finish" /\ pc'[w] = "idle") =>
                /\ item[w] \in workqueue.processing
                /\ item[w] \notin workqueue'.processing]_vars
    /\ \A i \in Items :
          (i \in workqueue.processing) ~> (i \notin workqueue.processing)

\* syncHandler has returned an error and Done is still to come.
DoneAfterError ==
    \E w \in Workers :
        pc[w] = "finish" /\ err[w] /\ item[w] \in workqueue.processing

\* C18: the end of a pass calls Forget, which sets the failure count of the
\* item to zero, exactly when syncHandler returned no error or the item was
\* no string; when syncHandler returned an error the failure counts stay as
\* they are.
ForgetPolicy ==
    /\ [](\A w \in Workers :
            wlog[w].lookup = "notstring" => (pc[w] = "finish" /\ ~err[w]))
    /\ [][\A w \in Workers :
             (pc[w] = "finish" /\ pc'[w] = "idle") =>
                IF err[w]
                THEN workqueue'.failures = workqueue.failures
                ELSE workqueue'.failures =
                        [workqueue.failures EXCEPT ![item[w]] = 0]]_vars

\* syncHandler has returned an error on a key the rate limiter has counted.
ErrorWithCount ==
    \E w \in Workers :
        pc[w] = "finish" /\ err[w] /\ workqueue.failures[item[w]] > 0

\* C19: the delay with which a key is enqueued is set by the number of failed
\* passes of the key since its last success: as long as no pass of the key
\* has failed (here: before any pass at all), a key that is handed to the
\* delaying queue gets the base delay, that of the first request the rate
\* limiter counts, however many notifications arrived before.
BackoffKeyedByFailures ==
    [][\A k \in Keys :
          (~anyGet /\ k \notin workqueue.waiting /\ k \in workqueue'.waiting)
          => workqueue'.failures[k] <= 1]_vars

\* C20: for both watched kinds, the Update notification of a periodic resync,
\* whose old and new object carry the same resourceVersion, adds nothing to
\* the work queue.
ResyncSuppressed ==
    [][\A k \in Keys :
          (ResyncCC(k) \/ ResyncSS(k)) => UNCHANGED workqueue]_vars

\* The StatefulSet informer does suppress it.
ResyncSuppressedForStatefulSets ==
    [][\A k \in Keys : ResyncSS(k) => UNCHANGED workqueue]_vars

\* C21: a panic inside one syncHandler execution does not stop the other
\* worker loops, which stay where they are and go on dequeuing, and the item
\* of the panicking pass is marked Done.
PanicIsolation ==
    [][\A w \in Workers :
          Panic(w) =>
             /\ item[w] \notin workqueue'.processing
             /\ \A v \in Workers \ {w} : pc'[v] = pc[v]]_vars

\* The part the deferred Done gives: the item of the panicking pass leaves
\* the processing set, its failure count untouched.
PanicKeyDone ==
    [][\A w \in Workers :
          Panic(w) =>
             /\ item[w] \notin workqueue'.processing
             /\ workqueue'.failures = workqueue.failures]_vars

\* The get-or-create steps of syncHandler in their order: the position, the
\* Get calls made when the step begins, and whether the resource is among
\* what the step's Get reads.
GetOrCreateSteps(w) ==
    LET k == item[w]
    IN  {[at |-> "svcU", n |-> 0, next |-> "svc",
          present |-> k \in Keys /\ svcs[k].unready],
         [at |-> "svc", n |-> 1, next |-> "ss",
          present |-> k \in Keys /\ svcs[k].headless],
         [at |-> "ss", n |-> 2, next |-> "upd",
          present |-> k \in Keys /\ ssCache[k].exists]}

\* The Create calls a pass has made for the resource of step st.
CreatesOf(log, st) == IF st.at = "ss" THEN log.ssCreates ELSE log.svcCreates

\* A pass has done nothing that follows the get-or-create steps.
NothingLater(log) ==
    /\ log.ssUpdates = 0
    /\ log.statusWrites = 0
    /\ log.warnings = 0
    /\ log.synced = 0

\* C22: syncHandler handles the two Services and then the StatefulSet, in
\* that order; each step makes one Get, makes exactly one Create when the Get
\* reported not found and none otherwise, and on any other error of Get or
\* any error of Create syncHandler returns the error at once: no Get or
\* Create of a later resource, no StatefulSet update, no status update and no
\* event has been made or follows.
OrderedGetOrCreate ==
    /\ [](\A w \in Workers :
            /\ \A st \in GetOrCreateSteps(w) :
                  pc[w] = st.at =>
                     /\ wlog[w].gets = st.n
                     /\ NothingLater(wlog[w])
                     /\ CreatesOf(wlog[w], st) <= (IF st.at = "svc" THEN 1 ELSE 0)
            /\ wlog[w].svcCreates <= Min(wlog[w].gets, 2)
            /\ wlog[w].ssCreates <= (IF wlog[w].gets = 3 THEN 1 ELSE 0)
            /\ ~NothingLater(wlog[w]) =>
                  (wlog[w].gets = 3 /\ pc[w] \in {"status", "finish"}))
    /\ [][\A w \in Workers : \A st \in GetOrCreateSteps(w) :
             (pc[w] = st.at /\ pc'[w] # st.at) =>
                LET made == CreatesOf(wlog'[w], st) - CreatesOf(wlog[w], st)
                IN  /\ wlog'[w].gets = st.n + 1
                    /\ made \in {0, 1}
                    /\ st.present => made = 0
                    /\ (svcs' # svcs \/ ss' # ss) => made = 1
                    /\ (~st.present /\ made = 0) => (pc'[w] = "finish" /\ err'[w])
                    /\ apiFailLeft' < apiFailLeft => (pc'[w] = "finish" /\ err'[w])
                    /\ pc'[w] = "finish" =>
                          /\ err'[w]
                          /\ NothingLater(wlog'[w])
                          /\ st.at # "ss" => wlog'[w].ssCreates = 0
                          /\ UNCHANGED api
                    /\ pc'[w] # "finish" =>
                          /\ pc'[w] = st.next /\ ~err'[w]
                          /\ (made = 1) = ~st.present
                          /\ st.at = "svcU" => svcs'[item[w]].unready
                          /\ st.at = "svc" => svcs'[item[w]].headless
                          /\ st.at = "ss" => wss'[w].exists]_vars

\* The Create of the second Service has failed and syncHandler has returned.
CreateFailedAndReturned ==
    \E w \in Workers :
        /\ pc[w] = "finish" /\ err[w]
        /\ wlog[w].gets = 2 /\ wlog[w].svcCreates = 2
        /\ ~svcs[item[w]].headless

\* C23: no step of a syncHandler pass changes the CassandraCluster in the
\* informer's store, nor the object the pass holds; the object sent in the
\* status update has status.currentReplicas of the StatefulSet and is the
\* held object in everything else: what the API server stores from it has
\* the held object's spec, and it is accepted only with the held object's
\* resourceVersion being the stored one.
CacheReadOnly ==
    /\ [][pc' # pc => ccCache' = ccCache]_vars
    /\ [][\A w \in Workers :
             (pc[w] \in InSync /\ pc'[w] # pc[w]) =>
                /\ wcc'[w].obj = wcc[w].obj
                /\ pc[w] = "status" =>
                      /\ wlog'[w].statusSent = wss[w].cur
                      /\ cc' # cc =>
                            /\ cc'[item[w]] =
                                  [wcc[w].obj EXCEPT !.cur = wss[w].cur]
                            /\ wcc[w].fresh]_vars

\* A pass has sent a status that differs from the object it holds, which is
\* the object in the store.
StatusCopyDiffers ==
    \E w \in Workers :
        /\ pc[w] = "finish" /\ wlog[w].statusWrites = 1
        /\ wlog[w].statusSent # wcc[w].obj.cur
        /\ ccCache[item[w]] = wcc[w].obj

\* A pass of worker w went through every step: the CassandraCluster was
\* found and names its StatefulSet, the three get-or-create steps and the
\* ownership check passed, and the status update was made and accepted.
PassedEveryStep(w) ==
    /\ pc[w] = "finish" /\ ~err[w]
    /\ wlog[w].lookup = "found" /\ wcc[w].obj.name
    /\ wlog[w].gets = 3
    /\ wlog[w].warnings = 0
    /\ wlog[w].statusWrites = 1 /\ ~wlog[w].statusFailed

\* C24: a pass records the Synced event once if it passed every step, the
\* accepted status update included, and never otherwise: not while it runs,
\* and not when it ends in a soft drop, an error of an API call or an
\* ownership conflict.
SyncedEvent ==
    \A w \in Workers :
        /\ wlog[w].synced = (IF PassedEveryStep(w) THEN 1 ELSE 0)
        /\ (pc[w] = "finish" /\ (err[w] \/ wlog[w].lookup # "found"
                                         \/ ~wcc[w].obj.name
                                         \/ wlog[w].warnings > 0))
              => wlog[w].synced = 0

\* A pass that made the Services and the StatefulSet has recorded the event.
SyncedRecorded ==
    \E w \in Workers :
        /\ PassedEveryStep(w)
        /\ wlog[w].svcCreates = 2 /\ wlog[w].ssCreates = 1
        /\ wlog[w].synced = 1

\* C25: CreateOrUpdateStatefulSet makes one Get; when it reports not found
\* there is exactly one Create and no Update; when it returns a stored object
\* there is exactly one Update, carrying the resourceVersion of that object,
\* and no Create; when it fails otherwise the call returns the error and
\* writes nothing; and the result of the call is the error of its one write.
CreateOrUpdate ==
    /\ [](\A w \in Workers :
            /\ wlog[w].gets <= 1
            /\ pc[w] = "get" => (wlog[w].ssCreates = 0 /\ wlog[w].ssUpdates = 0)
            /\ pc[w] = "create" =>
                  (wlog[w].lookup = "notfound"
                     /\ wlog[w].ssCreates = 0 /\ wlog[w].ssUpdates = 0)
            /\ pc[w] = "update" =>
                  (wlog[w].lookup = "found"
                     /\ wlog[w].ssCreates = 0 /\ wlog[w].ssUpdates = 0)
            /\ pc[w] = "done" =>
                  CASE wlog[w].lookup = "notfound" ->
                         /\ wlog[w].ssCreates = 1 /\ wlog[w].ssUpdates = 0
                         /\ err[w] = wlog[w].writeFailed
                    [] wlog[w].lookup = "found" ->
                         /\ wlog[w].ssCreates = 0 /\ wlog[w].ssUpdates = 1
                         /\ wlog[w].sentVersion = wss[w].rv
                         /\ err[w] = wlog[w].writeFailed
                    [] OTHER ->
                         /\ wlog[w].lookup = "error" /\ err[w]
                         /\ wlog[w].ssCreates = 0 /\ wlog[w].ssUpdates = 0)
    /\ [][\A w \in Workers :
             (pc[w] \in {"get", "create", "update"} /\ pc'[w] # pc[w]) =>
                /\ pc[w] = "get" => ss' = ss
                /\ pc[w] = "update" /\ ss' # ss => ss[item[w]].rv = wss[w].rv
                /\ ss' # ss => ~err'[w]]_vars

\* The Update of a call was refused: the StatefulSet had been written since
\* the Get of the call.
UpdateRefused ==
    \E w \in Workers :
        /\ pc[w] = "done" /\ wlog[w].lookup = "found"
        /\ wlog[w].ssUpdates = 1 /\ err[w]
        /\ ss[item[w]].exists /\ ss[item[w]].rv # wss[w].rv

\* C26: once the stop signal has shut the queue down, every worker loop
\* exits in the end; a worker that waits in Get exits only when Get reports
\* the shutdown, which it does when the queue is drained (a worker that had
\* not entered its loop leaves without a Get), and stays out; and what is enqueued
\* after the shutdown never reaches a worker: nothing is added to the queue
\* or to the keys waiting for their delay.
WorkerTermination ==
    /\ (runState = "stopped") ~> (\A w \in Workers : pc[w] = "exited")
    /\ [](runState = "stopped" => workqueue.shuttingDown)
    /\ [][\A w \in Workers :
             /\ (pc[w] # "exited" /\ pc'[w] = "exited") =>
                   /\ workqueue.shuttingDown
                   /\ pc[w] \in {"started", "idle"}
                   /\ pc[w] = "idle" => workqueue.queue = <<>>
             /\ pc[w] = "exited" => pc'[w] = "exited"]_vars
    /\ [][workqueue.shuttingDown =>
             /\ workqueue'.shuttingDown
             /\ workqueue'.dirty \subseteq workqueue.dirty
             /\ workqueue'.waiting \subseteq workqueue.waiting
             /\ Queued(workqueue') \subseteq
                   Queued(workqueue) \cup workqueue.dirty]_vars

\* The workers have exited after a stop that came while a key was waiting
\* for its delay.
WorkersExited ==
    /\ runState = "stopped"
    /\ \A w \in Workers : pc[w] = "exited"
    /\ workqueue.waiting # {}

\* C27: syncHandler issues the Create of the StatefulSet only when no
\* StatefulSet of that name is in the cluster, however far the lister's cache
\* lags behind the API server: no Create is attempted on a StatefulSet that
\* exists, and no pass ends in its already-exists error.
CreateOnlyWhenAbsent ==
    [][\A w \in Workers :
          (pc[w] = "ss" /\ wlog'[w].ssCreates > wlog[w].ssCreates)
          => ~ss[item[w]].exists]_vars

\* What does hold: the Create is issued exactly when the lister has no
\* StatefulSet of that name.
CreateOnlyWhenNotCached ==
    [][\A w \in Workers :
          (pc[w] = "ss" /\ pc'[w] # "ss" /\ wlog'[w].gets > wlog[w].gets
             /\ ~(pc'[w] = "finish" /\ wlog'[w].ssCreates = 0
                    /\ ~ssCache[item[w]].exists))
          => (wlog'[w].ssCreates > wlog[w].ssCreates)
                = ~ssCache[item[w]].exists]_vars

\* C28: the drift test looks at the replica count only: with a StatefulSet
\* that the CassandraCluster controls and whose spec.replicas is that of the
\* CassandraCluster, or with spec.replicas of the CassandraCluster unset,
\* syncHandler issues no Update and leaves the StatefulSet as it is, whatever
\* else differs between it and what newStatefulSet makes.
DriftOnlyReplicas ==
    [][\A w \in Workers :
          (pc[w] = "upd" /\ pc'[w] # "upd" /\ wss[w].owner = item[w]
             /\ (wcc[w].obj.replicas = 0
                   \/ wcc[w].obj.replicas = wss[w].replicas))
          => /\ wlog'[w].ssUpdates = 0
             /\ ss' = ss
             /\ wss'[w] = wss[w]
             /\ pc'[w] = "status"]_vars

\* A pass has gone past the drift test without an Update, on a StatefulSet
\* it controls that differs from what newStatefulSet makes.
EditedLeftAlone ==
    \E w \in Workers :
        /\ pc[w] = "status"
        /\ wss[w].exists /\ wss[w].owner = item[w]
        /\ wss[w].rest = "other"
        /\ ss[item[w]] = wss[w]
        /\ wlog[w].ssUpdates = 0

\* The status step of worker w, taken with status.currentReplicas of the
\* CassandraCluster it holds equal to that of the StatefulSet it holds.
StatusStepWhenEqual(w) ==
    /\ pc[w] = "status" /\ pc'[w] # "status"
    /\ wcc[w].obj.cur = wss[w].cur

\* C29: a pass that finds status.currentReplicas of the CassandraCluster
\* equal to currentReplicas of the StatefulSet issues no write to the
\* CassandraCluster, so that it changes nothing and causes no notification
\* of the CassandraCluster.
NoStatusWriteWhenEqual ==
    [][\A w \in Workers :
          StatusStepWhenEqual(w) =>
             /\ wlog'[w].statusWrites = wlog[w].statusWrites
             /\ cc' = cc
             /\ ccSeen' = ccSeen]_vars

\* C29 as amended: such a pass does issue its one Update of the
\* CassandraCluster, but the object it sends is the stored one, so that the
\* accepted Update changes nothing in the cluster and leaves no notification
\* of the CassandraCluster to be delivered; nor does the step touch the queue.
EqualStatusWriteChangesNothing ==
    [][\A w \in Workers :
          StatusStepWhenEqual(w) =>
             /\ wlog'[w].statusWrites = wlog[w].statusWrites + 1
             /\ wlog'[w].statusSent = wcc[w].obj.cur
             /\ cc' = cc
             /\ ccSeen' = ccSeen
             /\ workqueue' = workqueue]_vars

\* A pass that wrote nothing else has sent a status that was stored already,
\* and no notification is pending.
EqualStatusSent ==
    \E w \in Workers :
        /\ pc[w] = "finish" /\ wlog[w].synced = 1
        /\ wlog[w].statusSent = wcc[w].obj.cur /\ wlog[w].statusSent # 0
        /\ wlog[w].svcCreates = 0 /\ wlog[w].ssCreates = 0
        /\ wlog[w].ssUpdates = 0
        /\ cc[item[w]] = wcc[w].obj
        /\ ccSeen[item[w]]

====
